---- MODULE Spec2Model ----
(***************************************************************************)
(* The Author / Magazine / Article record layer over the three SQLite      *)
(* tables created by database/setup.py.                                    *)
(*                                                                         *)
(* State: the three tables, and the observable result of the last call     *)
(* made through the layer (which operation, its arguments, how it ended    *)
(* and what it returned).  Python strings are sequences of one-character   *)
(* strings; a Python value that may or may not be an int is a record       *)
(* [type, val].                                                            *)
(***************************************************************************)
EXTENDS Integers, Sequences, FiniteSets

VARIABLES
    authors,     \* table authors:   set of [id, name]
    magazines,   \* table magazines: set of [id, name, category]
    articles,    \* table articles:  set of [id, title, content, author_id, magazine_id]
    op,          \* the last operation called
    arg,         \* its arguments (and receiver `self`, for a method)
    outcome,     \* "ok" or the kind of exception it raised
    ret          \* the object or value it returned / left in self

vars == <<authors, magazines, articles, op, arg, outcome, ret>>

---------------------------------------------------------------------------
(* Bounds of the model *)

MaxArticles == 2     \* rows the articles table may hold
MaxPad == 1          \* longest run of leading blanks in an input string

(* Program constants *)

MinTitleLen == 5
MaxTitleLen == 50
MinNameLen == 2
MaxNameLen == 16
FetchDataParams == 3   \* def fetch_data(self, query, params)

---------------------------------------------------------------------------
(* Python values *)

IntV(n) == [type |-> "int", val |-> n]
NonInt == [type |-> "str", val |-> 0]          \* some value that is not an int
NoneV == [type |-> "NoneType", val |-> 0]

\* isinstance(v, int) and v > 0
IsPositiveInt(v) == v.type = "int" /\ v.val > 0

Rep(c, n) == [i \in 1..n |-> c]
Pad(n) == Rep(" ", n)

RECURSIVE LStrip(_)
LStrip(s) == IF s # <<>> /\ Head(s) = " " THEN LStrip(Tail(s)) ELSE s

RECURSIVE RStrip(_)
RStrip(s) == IF s # <<>> /\ s[Len(s)] = " " THEN RStrip(SubSeq(s, 1, Len(s) - 1)) ELSE s

\* str.strip()
Strip(s) == RStrip(LStrip(s))

\* truthiness of a str argument (`elif name:`): None and "" are falsy
Truthy(s) == s # <<>>

\* a call that passes `passed` positional arguments to fetch_data binds only
\* if that is the number of its parameters; otherwise Python raises TypeError
CallBinds(passed) == passed = FetchDataParams

\* the exception kinds that are Python ValueError in this code
IsValueError(k) == k \in {"ValidationError", "NotFound"}

---------------------------------------------------------------------------
(* Storage: schema constraints of database/setup.py *)

RECURSIVE MaxOf(_)
MaxOf(S) == IF S = {} THEN 0
            ELSE LET x == CHOOSE x \in S : TRUE
                     m == MaxOf(S \ {x})
                 IN IF x > m THEN x ELSE m

\* INTEGER PRIMARY KEY AUTOINCREMENT (no row is ever deleted by the layer)
NextId(tbl) == MaxOf({r.id : r \in tbl}) + 1

\* name TEXT NOT NULL UNIQUE on authors
AuthorsUniqueOk(tbl) == \A r, s \in tbl : r.name = s.name => r = s

\* name TEXT NOT NULL UNIQUE on magazines, CHECK(LENGTH(category) > 0)
MagazinesUniqueOk(tbl) == \A r, s \in tbl : r.name = s.name => r = s
SchemaCategoryCheck(category) == Len(category) > 0

\* CHECK(LENGTH(title) BETWEEN 5 AND 50)
SchemaTitleCheck(title) == Len(title) >= MinTitleLen /\ Len(title) <= MaxTitleLen

\* INSERT INTO authors (name) VALUES (?)
InsertAuthor(tbl, name) ==
    LET row == [id |-> NextId(tbl), name |-> name]
    IN IF AuthorsUniqueOk(tbl \cup {row})
       THEN [kind |-> "ok", tbl |-> tbl \cup {row}, id |-> row.id]
       ELSE [kind |-> "StorageError", tbl |-> tbl, id |-> 0]

\* UPDATE authors SET name = ? WHERE id = ?
UpdateAuthorName(tbl, id, name) ==
    LET new == {IF r.id = id THEN [r EXCEPT !.name = name] ELSE r : r \in tbl}
    IN IF AuthorsUniqueOk(new)
       THEN [kind |-> "ok", tbl |-> new]
       ELSE [kind |-> "StorageError", tbl |-> tbl]

\* INSERT INTO magazines (name, category) VALUES (?, ?)
InsertMagazine(tbl, name, category) ==
    LET row == [id |-> NextId(tbl), name |-> name, category |-> category]
    IN IF MagazinesUniqueOk(tbl \cup {row}) /\ SchemaCategoryCheck(category)
       THEN [kind |-> "ok", tbl |-> tbl \cup {row}, id |-> row.id]
       ELSE [kind |-> "StorageError", tbl |-> tbl, id |-> 0]

\* INSERT INTO articles (title, content, author_id, magazine_id) VALUES (?, ?, ?, ?)
\* under the title CHECK and the two FOREIGN KEYs
InsertArticle(tbl, title, content, author_id, magazine_id, auths, mags) ==
    LET row == [id |-> NextId(tbl), title |-> title, content |-> content,
                author_id |-> author_id, magazine_id |-> magazine_id]
    IN IF /\ SchemaTitleCheck(title)
          /\ \E a \in auths : a.id = author_id
          /\ \E m \in mags : m.id = magazine_id
       THEN [kind |-> "ok", tbl |-> tbl \cup {row}, id |-> row.id]
       ELSE [kind |-> "StorageError", tbl |-> tbl, id |-> 0]

\* UPDATE articles SET content = ? WHERE id = ?
UpdateArticleContent(tbl, id, content) ==
    {IF r.id = id THEN [r EXCEPT !.content = content] ELSE r : r \in tbl}

\* the orders in which a query without ORDER BY may return the rows S
SeqsOf(S) ==
    {s \in [1..Cardinality(S) -> S] : \A i, j \in 1..Cardinality(S) : s[i] = s[j] => i = j}

---------------------------------------------------------------------------
(* models/author.py *)

Raise(kind, tbl) == [kind |-> kind, tbl |-> tbl, obj |-> [id |-> 0]]

\* (mutant) the lookup is made with the name as given
AuthorLookupKey_AsGiven(name) == name

\* the name Author.create looks up
AuthorLookupKey(name) == Strip(name)

\* (mutant) the name is stored as given
AuthorStoredName_AsGiven(name) == name

\* the name Author.create inserts and the name setter writes
AuthorStoredName(name) == Strip(name)

\* Author.load_by_id: self.fetch_data(query, params) passes self, query, params
AuthorLoadById(tbl, author_id) ==
    IF ~IsPositiveInt(author_id) THEN Raise("ValidationError", tbl)
    ELSE IF ~CallBinds(3) THEN Raise("TypeError", tbl)
    ELSE LET rows == {r \in tbl : r.id = author_id.val}
         IN IF rows # {}
            THEN [kind |-> "ok", tbl |-> tbl,
                  obj |-> [id |-> author_id.val, name |-> (CHOOSE r \in rows : TRUE).name]]
            ELSE Raise("NotFound", tbl)

\* Author.create
AuthorCreate(tbl, name) ==
    IF Len(Strip(name)) = 0 THEN Raise("ValidationError", tbl)
    ELSE IF ~CallBinds(3) THEN Raise("TypeError", tbl)
    ELSE LET rows == {r \in tbl : r.name = AuthorLookupKey(name)}
         IN IF rows # {}
            THEN [kind |-> "ok", tbl |-> tbl,
                  obj |-> [id |-> (CHOOSE r \in rows : TRUE).id, name |-> Strip(name)]]
            ELSE LET ins == InsertAuthor(tbl, AuthorStoredName(name))
                 IN IF ins.kind = "ok"
                    THEN [kind |-> "ok", tbl |-> ins.tbl,
                          obj |-> [id |-> ins.id, name |-> Strip(name)]]
                    ELSE Raise(ins.kind, tbl)

\* Author.__init__(id, name); a name that was not given (None) is <<>>
AuthorInit(tbl, id, name) ==
    IF id # NoneV THEN AuthorLoadById(tbl, id)
    ELSE IF Truthy(name) THEN AuthorCreate(tbl, name)
    ELSE Raise("ValidationError", tbl)

\* Author.name setter on the object self
AuthorSetNameResult(tbl, self, new_name) ==
    IF Len(Strip(new_name)) = 0 THEN Raise("ValidationError", tbl)
    ELSE LET upd == UpdateAuthorName(tbl, self.id, AuthorStoredName(new_name))
         IN IF upd.kind = "ok"
            THEN [kind |-> "ok", tbl |-> upd.tbl,
                  obj |-> [id |-> self.id, name |-> Strip(new_name)]]
            ELSE Raise(upd.kind, tbl)

\* Author.get (classmethod): cls.fetch_data(query, params) passes two
\* arguments, no instance being bound
AuthorGet(tbl, author_id) ==
    IF ~IsPositiveInt(author_id) THEN Raise("ValidationError", tbl)
    ELSE IF ~CallBinds(2) THEN Raise("TypeError", tbl)
    ELSE LET rows == {r \in tbl : r.id = author_id.val}
         IN IF rows # {}
            THEN LET r == CHOOSE r \in rows : TRUE
                 IN AuthorInit(tbl, IntV(r.id), r.name)
            ELSE Raise("NotFound", tbl)

---------------------------------------------------------------------------
(* models/magazine.py *)

\* (mutant) the lookup matches on the name alone
MagazineLookup_NameOnly(tbl, name, category) == {r \in tbl : r.name = name}

\* the rows Magazine.create takes as the magazine asked for
MagazineLookup(tbl, name, category) ==
    {r \in tbl : r.name = name /\ r.category = category}

\* Magazine.load_by_id
MagazineLoadById(tbl, magazine_id) ==
    IF ~IsPositiveInt(magazine_id) THEN Raise("ValidationError", tbl)
    ELSE LET rows == {r \in tbl : r.id = magazine_id.val}
         IN IF rows # {}
            THEN LET r == CHOOSE r \in rows : TRUE
                 IN [kind |-> "ok", tbl |-> tbl,
                     obj |-> [id |-> magazine_id.val, name |-> r.name, category |-> r.category]]
            ELSE Raise("NotFound", tbl)

\* Magazine.create
MagazineCreate(tbl, name, category) ==
    IF ~(MinNameLen <= Len(name) /\ Len(name) <= MaxNameLen) THEN Raise("ValidationError", tbl)
    ELSE IF Len(category) = 0 THEN Raise("ValidationError", tbl)
    ELSE LET rows == MagazineLookup(tbl, name, category)
         IN IF rows # {}
            THEN [kind |-> "ok", tbl |-> tbl,
                  obj |-> [id |-> (CHOOSE r \in rows : TRUE).id, name |-> name,
                           category |-> category]]
            ELSE LET ins == InsertMagazine(tbl, name, category)
                 IN IF ins.kind = "ok"
                    THEN [kind |-> "ok", tbl |-> ins.tbl,
                          obj |-> [id |-> ins.id, name |-> name, category |-> category]]
                    ELSE Raise(ins.kind, tbl)

\* Magazine.__init__(id, name, category)
MagazineInit(tbl, id, name, category) ==
    IF id # NoneV THEN MagazineLoadById(tbl, id)
    ELSE IF Truthy(name) /\ Truthy(category) THEN MagazineCreate(tbl, name, category)
    ELSE Raise("ValidationError", tbl)

\* Magazine.get (classmethod)
MagazineGet(tbl, magazine_id) ==
    IF ~IsPositiveInt(magazine_id) THEN Raise("ValidationError", tbl)
    ELSE LET rows == {r \in tbl : r.id = magazine_id.val}
         IN IF rows # {}
            THEN LET r == CHOOSE r \in rows : TRUE
                 IN MagazineInit(tbl, IntV(r.id), r.name, r.category)
            ELSE Raise("NotFound", tbl)

---------------------------------------------------------------------------
(* models/article.py *)

\* isinstance(title, str) and 5 <= len(title) <= 50
ArticleTitleValid(title) == MinTitleLen <= Len(title) /\ Len(title) <= MaxTitleLen

\* (mutant) the content is measured without trimming
ArticleContentValid_NoStrip(content) == Len(content) > 0

\* isinstance(content, str) and len(content.strip()) > 0
ArticleContentValid(content) == Len(Strip(content)) > 0

\* the title Article.create passes to INSERT
ArticleStoredTitle(title) == Strip(title)

\* Article.load_by_id (no validation of the id: a non-int matches no row)
ArticleLoadById(tbl, article_id) ==
    LET rows == {r \in tbl : article_id.type = "int" /\ r.id = article_id.val}
    IN IF ~CallBinds(3) THEN Raise("TypeError", tbl)
       ELSE IF rows # {}
       THEN [kind |-> "ok", tbl |-> tbl, obj |-> CHOOSE r \in rows : TRUE]
       ELSE Raise("NotFound", tbl)

\* Article.create
ArticleCreate(tbl, title, content, author_id, magazine_id, auths, mags) ==
    IF ~ArticleTitleValid(title) THEN Raise("ValidationError", tbl)
    ELSE IF ~ArticleContentValid(content) THEN Raise("ValidationError", tbl)
    ELSE IF ~IsPositiveInt(author_id) THEN Raise("ValidationError", tbl)
    ELSE IF ~IsPositiveInt(magazine_id) THEN Raise("ValidationError", tbl)
    ELSE LET a == AuthorGet(auths, author_id)
             m == MagazineGet(mags, magazine_id)
             ins == InsertArticle(tbl, ArticleStoredTitle(title), Strip(content),
                                  author_id.val, magazine_id.val, auths, mags)
         IN IF IsValueError(a.kind) THEN Raise("ValidationError", tbl)
            ELSE IF a.kind # "ok" THEN Raise(a.kind, tbl)
            ELSE IF IsValueError(m.kind) THEN Raise("ValidationError", tbl)
            ELSE IF m.kind # "ok" THEN Raise(m.kind, tbl)
            ELSE IF ins.kind # "ok" THEN Raise(ins.kind, tbl)
            ELSE [kind |-> "ok", tbl |-> ins.tbl,
                  obj |-> [id |-> ins.id, title |-> Strip(title), content |-> Strip(content),
                           author_id |-> author_id.val, magazine_id |-> magazine_id.val]]

\* Article.__init__(id, title, content, author_id, magazine_id)
ArticleInit(tbl, id, title, content, author_id, magazine_id, auths, mags) ==
    IF id # NoneV THEN ArticleLoadById(tbl, id)
    ELSE ArticleCreate(tbl, title, content, author_id, magazine_id, auths, mags)

\* Article.content setter on the object self
ArticleSetContentResult(tbl, self, new_content) ==
    IF ~ArticleContentValid(new_content) THEN [kind |-> "ValidationError", tbl |-> tbl, obj |-> self]
    ELSE [kind |-> "ok", tbl |-> UpdateArticleContent(tbl, self.id, Strip(new_content)),
          obj |-> [self EXCEPT !.content = Strip(new_content)]]

---------------------------------------------------------------------------
(* The relationship queries *)

\* get_db_connection() / cursor.execute(...) failing inside a query
Execute(fail, res) ==
    IF fail THEN [kind |-> "StorageError", tbl |-> res.tbl, ret |-> <<>>] ELSE res

\* (mutant) no handler
AuthorQueryHandler_Propagate(res) == res

\* try: ... except Exception as e: print(...); return []   (author.py)
AuthorQueryHandler(res) ==
    IF res.kind # "ok" THEN [kind |-> "ok", tbl |-> res.tbl, ret |-> <<>>] ELSE res

\* Magazine.articles and Magazine.contributors have no handler
MagazineQueryHandler(res) == res

\* WHERE articles.author_id = ?
ArticlesOfAuthor(id) == {r \in articles : r.author_id = id}

\* WHERE articles.magazine_id = ?
ArticlesOfMagazine(id) == {r \in articles : r.magazine_id = id}

\* SELECT DISTINCT magazines.id, magazines.name, magazines.category FROM magazines
\* INNER JOIN articles ON articles.magazine_id = magazines.id WHERE articles.author_id = ?
MagazinesOfAuthor(id) ==
    {m \in magazines : \E r \in articles : r.magazine_id = m.id /\ r.author_id = id}

\* SELECT DISTINCT authors.name FROM authors
\* INNER JOIN articles ON articles.author_id = authors.id WHERE articles.magazine_id = ?
ContributorNames(id) ==
    {a.name : a \in {b \in authors : \E r \in articles : r.author_id = b.id /\ r.magazine_id = id}}

\* Author.articles
AuthorArticlesResult(self, fail, order) ==
    AuthorQueryHandler(Execute(fail,
        [kind |-> "ok", tbl |-> authors,
         ret |-> [i \in DOMAIN order |-> <<order[i].title, order[i].content,
                                           order[i].author_id, order[i].magazine_id>>]]))

\* Author.magazines: [Magazine(id=result[0], name=result[1], category=result[2]) ...]
AuthorMagazinesResult(self, fail, order) ==
    LET hyd == [i \in DOMAIN order |->
                   MagazineInit(magazines, IntV(order[i].id), order[i].name, order[i].category)]
        bad == {i \in DOMAIN order : hyd[i].kind # "ok"}
    IN AuthorQueryHandler(Execute(fail,
         IF bad # {}
         THEN [kind |-> hyd[CHOOSE i \in bad : \A j \in bad : i <= j].kind,
               tbl |-> authors, ret |-> <<>>]
         ELSE [kind |-> "ok", tbl |-> authors, ret |-> [i \in DOMAIN order |-> hyd[i].obj]]))

\* Magazine.articles
MagazineArticlesResult(self, fail, order) ==
    MagazineQueryHandler(Execute(fail,
        [kind |-> "ok", tbl |-> authors,
         ret |-> [i \in DOMAIN order |-> <<order[i].title, order[i].content,
                                           order[i].author_id>>]]))

\* [Author(name=result[0]) for result in results]: each element runs the
\* name-based constructor against the table the previous ones left
RECURSIVE HydrateContributors(_, _, _)
HydrateContributors(names, tbl, acc) ==
    IF names = <<>> THEN [kind |-> "ok", tbl |-> tbl, ret |-> acc]
    ELSE LET a == AuthorInit(tbl, NoneV, Head(names))
         IN IF a.kind # "ok" THEN [kind |-> a.kind, tbl |-> a.tbl, ret |-> <<>>]
            ELSE HydrateContributors(Tail(names), a.tbl, Append(acc, a.obj))

\* Magazine.contributors
MagazineContributorsResult(self, fail, order) ==
    MagazineQueryHandler(
        IF fail THEN Execute(fail, [kind |-> "ok", tbl |-> authors, ret |-> <<>>])
        ELSE HydrateContributors(order, authors, <<>>))

---------------------------------------------------------------------------
(* The arguments the calls are made with *)

\* ids: a non-int, zero, and positive ints with and without a row
IdInputs == {NonInt} \cup {IntV(n) : n \in 0..MaxArticles}

\* author names: empty, blank, and two names with blanks around them
NameInputs ==
    {Pad(l) \o c \o Pad(t) : l \in 0..MaxPad, t \in 0..1, c \in {<<>>, <<"a">>, <<"b">>}}

\* magazine names below, at and above the length limits, and categories
MagazineNameInputs ==
    {Rep("m", n) : n \in {MinNameLen - 1, MinNameLen, MaxNameLen + 1}}
CategoryInputs == {<<>>, <<"x">>, <<"y">>}

\* titles on both sides of the two length limits, and titles whose length
\* with their leading blanks is MinTitleLen
TitleInputs ==
    {Rep("t", n) : n \in {MinTitleLen - 1, MinTitleLen, MaxTitleLen, MaxTitleLen + 1}}
    \cup {Pad(l) \o Rep("t", MinTitleLen - l) : l \in 1..MaxPad}

\* contents: empty, blank, and text with leading blanks
ContentInputs == {Pad(l) \o c : l \in 0..MaxPad, c \in {<<>>, <<"c">>}}

\* the contents and the ids Article(...) is constructed with
ArticleContentInputs == {<<" ">>, <<"c">>}
ArticleRefInputs == {IntV(n) : n \in 0..1}

\* the row an external writer inserts into articles
DirectTitle == Rep("t", MinTitleLen)
DirectContent == <<"c">>

\* a name an external writer inserts into authors
DirectNames == {<<" ", "a">>}

\* the objects a caller can hold: those a load by id returns
AuthorObjects == {AuthorLoadById(authors, IntV(r.id)).obj : r \in authors}
MagazineObjects == {MagazineLoadById(magazines, IntV(r.id)).obj : r \in magazines}
ArticleObjects == {ArticleLoadById(articles, IntV(r.id)).obj : r \in articles}

NoObj == [id |-> 0]

---------------------------------------------------------------------------
(* The state machine *)

Init ==
    /\ authors = {}
    /\ magazines = {}
    /\ articles = {}
    /\ op = "init"
    /\ arg = NoneV
    /\ outcome = "ok"
    /\ ret = NoObj

\* Author(name=name)
AuthorNewByName(name) ==
    LET res == AuthorInit(authors, NoneV, name)
    IN /\ authors' = res.tbl
       /\ op' = "Author(name)"
       /\ arg' = [name |-> name]
       /\ outcome' = res.kind
       /\ ret' = res.obj
       /\ UNCHANGED <<magazines, articles>>

\* Author(id=id)
AuthorNewById(id) ==
    LET res == AuthorInit(authors, id, <<>>)
    IN /\ op' = "Author(id)"
       /\ arg' = [id |-> id]
       /\ outcome' = res.kind
       /\ ret' = res.obj
       /\ UNCHANGED <<authors, magazines, articles>>

\* self.name = new_name
AuthorSetName(self, new_name) ==
    LET res == AuthorSetNameResult(authors, self, new_name)
    IN /\ authors' = res.tbl
       /\ op' = "Author.name="
       /\ arg' = [self |-> self, new_name |-> new_name]
       /\ outcome' = res.kind
       /\ ret' = IF res.kind = "ok" THEN res.obj ELSE self
       /\ UNCHANGED <<magazines, articles>>

\* Author.get(id)
AuthorGetCall(id) ==
    LET res == AuthorGet(authors, id)
    IN /\ op' = "Author.get"
       /\ arg' = [id |-> id]
       /\ outcome' = res.kind
       /\ ret' = res.obj
       /\ UNCHANGED <<authors, magazines, articles>>

\* self.articles()
AuthorArticles(self, fail) ==
    \E order \in SeqsOf(ArticlesOfAuthor(self.id)) :
        LET res == AuthorArticlesResult(self, fail, order)
        IN /\ op' = "Author.articles"
           /\ arg' = [self |-> self, fail |-> fail]
           /\ outcome' = res.kind
           /\ ret' = res.ret
           /\ UNCHANGED <<authors, magazines, articles>>

\* self.magazines()
AuthorMagazines(self, fail) ==
    \E order \in SeqsOf(MagazinesOfAuthor(self.id)) :
        LET res == AuthorMagazinesResult(self, fail, order)
        IN /\ op' = "Author.magazines"
           /\ arg' = [self |-> self, fail |-> fail]
           /\ outcome' = res.kind
           /\ ret' = res.ret
           /\ UNCHANGED <<authors, magazines, articles>>

\* Magazine(name=name, category=category)
MagazineNewByFields(name, category) ==
    LET res == MagazineInit(magazines, NoneV, name, category)
    IN /\ magazines' = res.tbl
       /\ op' = "Magazine(name, category)"
       /\ arg' = [name |-> name, category |-> category]
       /\ outcome' = res.kind
       /\ ret' = res.obj
       /\ UNCHANGED <<authors, articles>>

\* Magazine.get(id)
MagazineGetCall(id) ==
    LET res == MagazineGet(magazines, id)
    IN /\ op' = "Magazine.get"
       /\ arg' = [id |-> id]
       /\ outcome' = res.kind
       /\ ret' = res.obj
       /\ UNCHANGED <<authors, magazines, articles>>

\* self.articles()
MagazineArticles(self, fail) ==
    \E order \in SeqsOf(ArticlesOfMagazine(self.id)) :
        LET res == MagazineArticlesResult(self, fail, order)
        IN /\ op' = "Magazine.articles"
           /\ arg' = [self |-> self, fail |-> fail]
           /\ outcome' = res.kind
           /\ ret' = res.ret
           /\ UNCHANGED <<authors, magazines, articles>>

\* self.contributors()
MagazineContributors(self, fail) ==
    \E order \in SeqsOf(ContributorNames(self.id)) :
        LET res == MagazineContributorsResult(self, fail, order)
        IN /\ authors' = res.tbl
           /\ op' = "Magazine.contributors"
           /\ arg' = [self |-> self, fail |-> fail]
           /\ outcome' = res.kind
           /\ ret' = res.ret
           /\ UNCHANGED <<magazines, articles>>

\* Article(title=title, content=content, author_id=author_id, magazine_id=magazine_id)
ArticleNewByFields(title, content, author_id, magazine_id) ==
    LET res == ArticleInit(articles, NoneV, title, content, author_id, magazine_id,
                           authors, magazines)
    IN /\ Cardinality(res.tbl) <= MaxArticles
       /\ articles' = res.tbl
       /\ op' = "Article(fields)"
       /\ arg' = [title |-> title, content |-> content,
                  author_id |-> author_id, magazine_id |-> magazine_id]
       /\ outcome' = res.kind
       /\ ret' = res.obj
       /\ UNCHANGED <<authors, magazines>>

\* Article(id=id)
ArticleNewById(id) ==
    LET res == ArticleInit(articles, id, <<>>, <<>>, NoneV, NoneV, authors, magazines)
    IN /\ op' = "Article(id)"
       /\ arg' = [id |-> id]
       /\ outcome' = res.kind
       /\ ret' = res.obj
       /\ UNCHANGED <<authors, magazines, articles>>

\* self.content = new_content
ArticleSetContent(self, new_content) ==
    LET res == ArticleSetContentResult(articles, self, new_content)
    IN /\ articles' = res.tbl
       /\ op' = "Article.content="
       /\ arg' = [self |-> self, new_content |-> new_content]
       /\ outcome' = res.kind
       /\ ret' = res.obj
       /\ UNCHANGED <<authors, magazines>>

\* a row written to articles directly at the storage layer
StorageInsertArticle(author_id, magazine_id) ==
    LET res == InsertArticle(articles, DirectTitle, DirectContent, author_id, magazine_id,
                             authors, magazines)
    IN /\ res.kind = "ok"
       /\ Cardinality(res.tbl) <= MaxArticles
       /\ articles' = res.tbl
       /\ op' = "storage.articles"
       /\ arg' = [author_id |-> author_id, magazine_id |-> magazine_id]
       /\ outcome' = "ok"
       /\ ret' = NoObj
       /\ UNCHANGED <<authors, magazines>>

\* a row written to authors directly at the storage layer
StorageInsertAuthor(name) ==
    LET res == InsertAuthor(authors, name)
    IN /\ res.kind = "ok"
       /\ authors' = res.tbl
       /\ op' = "storage.authors"
       /\ arg' = [name |-> name]
       /\ outcome' = "ok"
       /\ ret' = NoObj
       /\ UNCHANGED <<magazines, articles>>

Next ==
    \/ \E name \in NameInputs : AuthorNewByName(name)
    \/ \E id \in IdInputs : AuthorNewById(id)
    \/ \E self \in AuthorObjects, name \in NameInputs : AuthorSetName(self, name)
    \/ \E id \in IdInputs : AuthorGetCall(id)
    \/ \E self \in AuthorObjects, fail \in BOOLEAN : AuthorArticles(self, fail)
    \/ \E self \in AuthorObjects, fail \in BOOLEAN : AuthorMagazines(self, fail)
    \/ \E name \in MagazineNameInputs, category \in CategoryInputs :
           MagazineNewByFields(name, category)
    \/ \E id \in IdInputs : MagazineGetCall(id)
    \/ \E self \in MagazineObjects, fail \in BOOLEAN : MagazineArticles(self, fail)
    \/ \E self \in MagazineObjects, fail \in BOOLEAN : MagazineContributors(self, fail)
    \/ \E title \in TitleInputs, content \in ArticleContentInputs,
          author_id \in ArticleRefInputs, magazine_id \in ArticleRefInputs :
           ArticleNewByFields(title, content, author_id, magazine_id)
    \/ \E id \in IdInputs : ArticleNewById(id)
    \/ \E self \in ArticleObjects, content \in ContentInputs : ArticleSetContent(self, content)
    \/ \E a \in authors, m \in magazines : StorageInsertArticle(a.id, m.id)

\* the tables are written through the layer, articles also by an external writer
Spec == Init /\ [][Next]_vars

NextAnyStorage ==
    \/ Next
    \/ \E name \in DirectNames : StorageInsertAuthor(name)

\* authors too are written by an external writer
SpecAnyStorage == Init /\ [][NextAnyStorage]_vars

---------------------------------------------------------------------------
(* Properties *)

HasAuthor(id) == \E a \in authors : a.id = id.val
HasMagazine(id) == \E m \in magazines : m.id = id.val
NonBlank(s) == \E i \in DOMAIN s : s[i] # " "
Trimmed(s) == s = <<>> \/ (s[1] # " " /\ s[Len(s)] # " ")
RelationshipQueries ==
    {"Author.articles", "Author.magazines", "Magazine.articles", "Magazine.contributors"}

\* C1: constructing Author by name with a name that is not blank succeeds, leaves
\* exactly one authors row holding the trimmed name, the object carrying that
\* row's id; and a construction that directly follows a construction with a name
\* equal after trimming returns the same id and leaves the table as it was.
C1_AuthorReuseOnCreate ==
    [][(op' = "Author(name)" /\ NonBlank(arg'.name)) =>
           /\ outcome' = "ok"
           /\ Cardinality({r \in authors' : r.name = Strip(arg'.name)}) = 1
           /\ \A r \in authors' : r.name = Strip(arg'.name) => r.id = ret'.id
           /\ (op = "Author(name)" /\ outcome = "ok" /\ Strip(arg.name) = Strip(arg'.name))
                  => (ret'.id = ret.id /\ authors' = authors)]_vars

\* C1 witness: a construction with blanks around the name reused row 1 while a
\* second row existed (a fresh insert would have been given id 2)
C1_Witness ==
    /\ op = "Author(name)" /\ outcome = "ok"
    /\ arg.name # Strip(arg.name)
    /\ Cardinality(authors) = 2 /\ ret.id = 1

\* C2: Article construction by fields with valid title, content and positive ids
\* of which one has no row ends in ValidationError and inserts no article row.
C2_MissingReferenceIsValidationError ==
    [][(/\ op' = "Article(fields)"
        /\ Len(arg'.title) >= MinTitleLen /\ Len(arg'.title) <= MaxTitleLen
        /\ NonBlank(arg'.content)
        /\ IsPositiveInt(arg'.author_id) /\ IsPositiveInt(arg'.magazine_id)
        /\ (~HasAuthor(arg'.author_id) \/ ~HasMagazine(arg'.magazine_id)))
           => (outcome' = "ValidationError" /\ articles' = articles)]_vars

\* C3: with non-blank content and ids of existing rows, Article construction
\* ends in ValidationError for a title of 4 or 51 characters and succeeds for a
\* title of exactly 5 or 50 characters, inserting one row whose generated id the
\* object adopts.
C3_TitleBoundaries ==
    [][(/\ op' = "Article(fields)"
        /\ NonBlank(arg'.content)
        /\ IsPositiveInt(arg'.author_id) /\ HasAuthor(arg'.author_id)
        /\ IsPositiveInt(arg'.magazine_id) /\ HasMagazine(arg'.magazine_id))
           => /\ Len(arg'.title) \in {MinTitleLen - 1, MaxTitleLen + 1}
                    => outcome' = "ValidationError"
              /\ Len(arg'.title) \in {MinTitleLen, MaxTitleLen}
                    => /\ outcome' = "ok"
                       /\ Cardinality(articles') = Cardinality(articles) + 1
                       /\ \E r \in articles' \ articles : r.id = ret'.id]_vars

\* C4: Author.get ends in ValidationError for an id that is not a positive int,
\* in NotFound for a positive int without a row, and otherwise returns an Author
\* with the row's id and name.
C4_AuthorGet ==
    op = "Author.get" =>
        IF ~IsPositiveInt(arg.id) THEN outcome = "ValidationError"
        ELSE IF ~HasAuthor(arg.id) THEN outcome = "NotFound"
        ELSE /\ outcome = "ok"
             /\ \E a \in authors : a.id = arg.id.val /\ ret.id = a.id /\ ret.name = a.name

\* C5: constructing Magazine with a valid (name, category): when a row has the
\* name with another category the call ends in StorageError and the table is
\* unchanged; otherwise it succeeds, exactly one row holds the pair, the object
\* carries its id, and a directly repeated construction returns the same id and
\* leaves the table as it was.
C5_MagazineReuseAndCollision ==
    [][(/\ op' = "Magazine(name, category)"
        /\ Len(arg'.name) >= MinNameLen /\ Len(arg'.name) <= MaxNameLen
        /\ Len(arg'.category) > 0)
           => IF \E r \in magazines : r.name = arg'.name /\ r.category # arg'.category
              THEN outcome' = "StorageError" /\ magazines' = magazines
              ELSE /\ outcome' = "ok"
                   /\ Cardinality({r \in magazines' : r.name = arg'.name
                                       /\ r.category = arg'.category}) = 1
                   /\ \A r \in magazines' : (r.name = arg'.name /\ r.category = arg'.category)
                                               => r.id = ret'.id
                   /\ (op = "Magazine(name, category)" /\ outcome = "ok" /\ arg = arg')
                          => (ret'.id = ret.id /\ magazines' = magazines)]_vars

\* C5 witness: a construction collided with the stored name
C5_Witness ==
    /\ op = "Magazine(name, category)" /\ outcome = "StorageError"
    /\ \E r \in magazines : r.name = arg.name /\ r.category # arg.category

\* C6: setting Article.content to an empty or blank string ends in
\* ValidationError, and the articles table and the object's cached content are
\* what they were before the call.
C6_BlankContentRejected ==
    [][(op' = "Article.content=" /\ ~NonBlank(arg'.new_content))
           => /\ outcome' = "ValidationError"
              /\ articles' = articles
              /\ ret'.content = arg'.self.content]_vars

\* C6 witness: a blank (not empty) content was refused for a stored article
C6_Witness ==
    /\ op = "Article.content=" /\ outcome = "ValidationError"
    /\ arg.new_content # <<>>
    /\ \E r \in articles : r.id = arg.self.id /\ r.content = ret.content

\* C7 (as stated): every one of the four relationship queries returns an empty
\* result, without raising, when storage fails during the query.
C7_AllQueriesDegrade ==
    (op \in RelationshipQueries /\ arg.fail) => (outcome = "ok" /\ ret = <<>>)

\* C7 (amended): when storage fails during the query, Author.articles and
\* Author.magazines return an empty result without raising, and
\* Magazine.articles and Magazine.contributors raise the storage error.
C7_AuthorQueriesDegrade ==
    /\ (op \in {"Author.articles", "Author.magazines"} /\ arg.fail)
           => (outcome = "ok" /\ ret = <<>>)
    /\ (op \in {"Magazine.articles", "Magazine.contributors"} /\ arg.fail)
           => outcome = "StorageError"

\* C7 witness: Author.magazines degraded to empty for an author who has magazines
C7_Witness ==
    /\ op = "Author.magazines" /\ arg.fail /\ outcome = "ok" /\ ret = <<>>
    /\ MagazinesOfAuthor(arg.self.id) # {}

\* C8: without a storage failure, Author.magazines returns exactly the magazines
\* holding an article of the author, each once, and Magazine.contributors
\* returns exactly the authors holding an article in the magazine, each once,
\* every returned object carrying the id of its stored row.
C8_DistinctRelationships ==
    /\ (op = "Author.magazines" /\ ~arg.fail)
           => /\ outcome = "ok"
              /\ Len(ret) = Cardinality(MagazinesOfAuthor(arg.self.id))
              /\ {ret[i].id : i \in DOMAIN ret} = {m.id : m \in MagazinesOfAuthor(arg.self.id)}
    /\ (op = "Magazine.contributors" /\ ~arg.fail)
           => /\ outcome = "ok"
              /\ Len(ret) = Cardinality(ContributorNames(arg.self.id))
              /\ {ret[i].id : i \in DOMAIN ret}
                     = {a.id : a \in {b \in authors : \E r \in articles :
                                         r.author_id = b.id /\ r.magazine_id = arg.self.id}}

\* C9: every title that Article construction's title validation accepts is
\* inserted as a value that the schema's title length check accepts.
C9_TitleValidationMatchesSchema ==
    (op = "Article(fields)" /\ ArticleTitleValid(arg.title))
        => (Len(ArticleStoredTitle(arg.title)) >= MinTitleLen
            /\ Len(ArticleStoredTitle(arg.title)) <= MaxTitleLen)

\* C10: every stored author name is non-empty and trimmed, and
\* Magazine.contributors leaves the authors table as it was, succeeds unless
\* storage fails, and returns only Authors whose id and name are those of a row
\* that existed before the call.
C10_ContributorsInsertsNothing ==
    /\ [](\A a \in authors : a.name # <<>> /\ Trimmed(a.name))
    /\ [][op' = "Magazine.contributors"
            => /\ authors' = authors
               /\ ~arg'.fail => outcome' = "ok"
               /\ outcome' = "ok" =>
                     \A i \in DOMAIN ret' :
                         \E a \in authors : a.id = ret'[i].id /\ a.name = ret'[i].name]_vars

\* C10 witness: contributors returned two authors
C10_Witness ==
    /\ op = "Magazine.contributors" /\ outcome = "ok" /\ Len(ret) = 2

====
